---- MODULE Spec2Model ----
(***************************************************************************)
(* Model of src/pages/index.jsx, the Home component of the whitelist dapp. *)
(*                                                                         *)
(* The component's state is the four useState cells and the web3ModalRef.  *)
(* Every call of an async function of the component is a task: a record    *)
(* that holds the await it is suspended at.  The calls in flight are a bag *)
(* of such records: two calls of the same function suspended at the same   *)
(* await differ in nothing the program can observe.                        *)
(*                                                                         *)
(* One step of the model is one piece of JavaScript that runs without      *)
(* being interrupted: from a click, an effect or the settlement of an      *)
(* awaited promise up to the next await, with all the calls made in        *)
(* between.  The wallet, the network and the contract are outside the      *)
(* repository: what they answer is chosen freely.                          *)
(***************************************************************************)
EXTENDS Integers, FiniteSets, Sequences, Bags, TLC

\* Bounds of the model.
MaxTasks == 6          \* async function calls started in one page session
MaxCount == 1          \* largest value numAddressesWhitelisted() returns

\* Program constants.
RequiredChainId == 4   \* the chain id getProviderOrSigner accepts
OtherChainId == 1      \* a chain id it refuses

ChainIds == {OtherChainId, RequiredChainId}

Kinds == {"connectWallet", "addAddressToWhitelist",
          "getNumberOfWhitelisted", "checkIfAddressInWhitelist"}

\* The await a task is suspended at.
PCs == {"connect", "getNetwork", "getAddress", "whitelistedAddress",
        "numAddressesWhitelisted", "addAddressToWhitelist", "wait"}

VARIABLES
    walletConnected,      \* useState(false)
    joinedWhitelist,      \* useState(false)
    loading,              \* useState(false)
    numberOfWhitelisted,  \* useState(0)
    web3ModalRef,         \* number of Web3Modal objects assigned to .current
    effectPending,        \* the useEffect callback is scheduled
    tasks,                \* the async calls in flight, a bag of records
    callsStarted,         \* the number of async calls started so far
    rendered,             \* what renderButton returned at the last render
    ev,                   \* how the last step ended, see Ok, Error, Alert
    returned,             \* the last values the contract reads returned
    newest,               \* what the reads issued last returned, see Issued
    joinRun               \* history of the join runs, see Spoil

vars == <<walletConnected, joinedWhitelist, loading, numberOfWhitelisted,
          web3ModalRef, effectPending, tasks, callsStarted,
          rendered, ev, returned, newest, joinRun>>

UIState == <<walletConnected, joinedWhitelist, loading, numberOfWhitelisted>>

\* renderButton without the loading test: the join button whenever the wallet
\* is connected and the address is not a member.
renderButton_noPending(wc, jw, ld) ==
    IF wc
    THEN IF jw THEN "thanks" ELSE "join"
    ELSE "connect"

\* renderButton with the loading test before the membership test.
renderButton_pendingFirst(wc, jw, ld) ==
    IF wc
    THEN IF ld THEN "loading"
         ELSE IF jw THEN "thanks" ELSE "join"
    ELSE "connect"

\* renderButton: the variant shown for a state of the component.
renderButton(wc, jw, ld) ==
    IF wc
    THEN IF jw THEN "thanks"
         ELSE IF ld THEN "loading"
         ELSE "join"
    ELSE "connect"

\* The component re-renders after every state change.
Render == rendered' = renderButton(walletConnected', joinedWhitelist', loading')

\* The two functions that read the contract and set a state cell.
Reads == {"getNumberOfWhitelisted", "checkIfAddressInWhitelist"}

\* A call of async function k by c ("top": the effect or a click): it runs up
\* to its first await, which is web3ModalRef.current.connect() in
\* getProviderOrSigner for all four.  A call of a read is, when it starts,
\* the latest call of that read.
NewTask(k, c) ==
    IF k \in Reads
    THEN [kind |-> k, pc |-> "connect", caller |-> c, latest |-> TRUE]
    ELSE [kind |-> k, pc |-> "connect", caller |-> c]

\* The calls in flight, and how many of them are calls of function k.
Running == BagToSet(tasks)
InFlight(k) == BagCardinality([t \in {u \in Running : u.kind = k} |-> tasks[t]])

\* How the last step ended, <<k, outcome, chain id>>: without an error; with
\* getNetwork() answering chain id c and the chain test passed; with an error
\* that the catch block of function k logs; with the alert of
\* getProviderOrSigner for chain id c and its error, that the catch block of
\* k logs; with tx.wait() rejecting, that the catch block of k logs.
Ok == <<"", "ok", 0>>
NetworkOk(c) == <<"", "ok", c>>
Error(k) == <<k, "error", 0>>
Alert(k, c) == <<k, "alert", c>>
WaitError(k) == <<k, "waitError", 0>>

\* Calls still to be started by the connectWallet calls in flight: two reads
\* each.
Reserved == 2 * InFlight("connectWallet")

Room(n) == callsStarted + Reserved + n <= MaxTasks

\* The transactions submitted by the page and not yet mined: those whose
\* tx.wait() is pending.
unconfirmed == {t \in Running : t.pc = "wait"}

Init ==
    /\ walletConnected = FALSE
    /\ joinedWhitelist = FALSE
    /\ loading = FALSE
    /\ numberOfWhitelisted = 0
    /\ web3ModalRef = 0
    /\ effectPending = TRUE
    /\ tasks = EmptyBag
    /\ callsStarted = 0
    /\ rendered = renderButton(FALSE, FALSE, FALSE)
    /\ ev = Ok
    /\ returned = [count |-> -1, member |-> -1]
    /\ newest = [count |-> -1, member |-> -1]
    /\ joinRun = "none"

Spawn(new) == tasks' = tasks (+) SetToBag(new)

\* Task t when calls of the reads ks are started: a call of one of them in
\* flight is no longer the latest.
Older(t, ks) == IF t.kind \in ks THEN [t EXCEPT !.latest = FALSE] ELSE t

\* The bag B of tasks, when calls of the reads ks are started.
Demote(B, ks) ==
    [r \in {Older(t, ks) : t \in BagToSet(B)} |->
        IF r.kind \in ks
        THEN CopiesIn(r, B) + CopiesIn([r EXCEPT !.latest = TRUE], B)
        ELSE CopiesIn(r, B)]

\* Task t returns and calls the reads ks, as caller c.
Issue(t, ks, c) ==
    tasks' = Demote(tasks (-) SetToBag({t}), ks)
                (+) SetToBag({NewTask(k, c) : k \in ks})

\* newest: for each read, the value the contract returned to the call of it
\* that was started last, and -1 as long as that call has returned none.
Issued(ks) ==
    newest' = [count |-> IF "getNumberOfWhitelisted" \in ks
                         THEN -1 ELSE newest.count,
               member |-> IF "checkIfAddressInWhitelist" \in ks
                          THEN -1 ELSE newest.member]
Finish(t) == tasks' = tasks (-) SetToBag({t})
Move(t, p) ==
    tasks' = (tasks (-) SetToBag({t})) (+) SetToBag({[t EXCEPT !.pc = p]})

\* joinRun: "none" until a join transaction is confirmed and "confirmed" from
\* then on, in a session where no call has failed and no membership answer
\* after the confirmation was false (an answer from before the join, or for
\* another account); "spoiled" in every other session.
Spoil == joinRun' = "spoiled"

----------------------------------------------------------------------------
\* The effect and the two buttons.

\* useEffect without the test of walletConnected.
RunEffect_unguarded ==
    /\ effectPending
    /\ effectPending' = FALSE
    /\ Room(3)
    /\ web3ModalRef' = web3ModalRef + 1
    /\ Spawn({NewTask("connectWallet", "top")})
    /\ callsStarted' = callsStarted + 1
    /\ ev' = Ok
    /\ UNCHANGED <<walletConnected, joinedWhitelist, loading,
                   numberOfWhitelisted, rendered, returned, newest, joinRun>>

\* The useEffect callback: it runs after the first render and after every
\* render that changed walletConnected.
RunEffect ==
    /\ effectPending
    /\ effectPending' = FALSE
    /\ IF ~walletConnected
       THEN /\ web3ModalRef' = web3ModalRef + 1
            /\ Spawn({NewTask("connectWallet", "top")})
            /\ callsStarted' = callsStarted + 1
            /\ ev' = Ok
       ELSE /\ ev' = Ok
            /\ UNCHANGED <<web3ModalRef, tasks, callsStarted>>
    /\ UNCHANGED <<walletConnected, joinedWhitelist, loading,
                   numberOfWhitelisted, rendered, returned, newest, joinRun>>

\* A click on "Connect your wallet": onClick={connectWallet}.  React runs the
\* scheduled effects before it handles a click.
ClickConnect ==
    /\ ~effectPending
    /\ rendered = "connect"
    /\ Room(3)
    /\ Spawn({NewTask("connectWallet", "top")})
    /\ callsStarted' = callsStarted + 1
    /\ ev' = Ok
    /\ UNCHANGED <<walletConnected, joinedWhitelist, loading,
                   numberOfWhitelisted, web3ModalRef, effectPending, rendered,
                   returned, newest, joinRun>>

\* A click on "Join the Whitelist": onClick={addAddressToWhitelist}.
ClickJoin ==
    /\ ~effectPending
    /\ rendered = "join"
    /\ Room(1)
    /\ Spawn({NewTask("addAddressToWhitelist", "top")})
    /\ callsStarted' = callsStarted + 1
    /\ ev' = Ok
    /\ UNCHANGED <<walletConnected, joinedWhitelist, loading,
                   numberOfWhitelisted, web3ModalRef, effectPending, rendered,
                   returned, newest, joinRun>>

----------------------------------------------------------------------------
\* getProviderOrSigner, as run inside each of the four functions.

\* web3ModalRef.current.connect() resolves; getNetwork() is called.
ConnectResolved(t) ==
    /\ t.pc = "connect"
    /\ Move(t, "getNetwork")
    /\ ev' = Ok
    /\ UNCHANGED <<walletConnected, joinedWhitelist, loading,
                   numberOfWhitelisted, web3ModalRef, effectPending,
                   callsStarted, rendered, returned, newest, joinRun>>

\* The catch blocks of the two reads, resetting the cell the read sets.
Fail_resetRead(t) ==
    /\ t.pc \in PCs \ {"wait"}
    /\ Finish(t)
    /\ ev' = Error(t.kind)
    /\ Spoil
    /\ numberOfWhitelisted' =
          IF t.kind = "getNumberOfWhitelisted" THEN 0 ELSE numberOfWhitelisted
    /\ joinedWhitelist' =
          IF t.kind = "checkIfAddressInWhitelist" THEN FALSE
          ELSE joinedWhitelist
    /\ UNCHANGED <<walletConnected, loading, web3ModalRef, effectPending,
                   callsStarted, returned, newest>>
    /\ Render

\* The promise a task awaits is rejected (the user declines the wallet prompt,
\* an RPC call fails, the contract call reverts): the function's catch block
\* logs the error and the function returns.
Fail(t) ==
    /\ t.pc \in PCs \ {"wait"}
    /\ Finish(t)
    /\ ev' = Error(t.kind)
    /\ Spoil
    /\ UNCHANGED <<walletConnected, joinedWhitelist, loading,
                   numberOfWhitelisted, web3ModalRef, effectPending,
                   callsStarted, rendered, returned, newest>>

\* getNetwork() with the alert but without the throw, in connectWallet.
NetworkWrong_noThrow(t, c) ==
    /\ t.pc = "getNetwork"
    /\ c # RequiredChainId
    /\ ev' = Alert(t.kind, c)
    /\ Spoil
    /\ IF t.kind = "connectWallet"
       THEN /\ walletConnected' = TRUE
            /\ effectPending' = (effectPending \/ ~walletConnected)
       ELSE UNCHANGED <<walletConnected, effectPending>>
    /\ Finish(t)
    /\ UNCHANGED <<joinedWhitelist, loading, numberOfWhitelisted,
                   web3ModalRef, callsStarted, returned, newest>>
    /\ Render

\* getNetwork() answers a chain id other than 4: window.alert, then the throw,
\* which the calling function's catch block logs.
NetworkWrong(t, c) ==
    /\ t.pc = "getNetwork"
    /\ c # RequiredChainId
    /\ Finish(t)
    /\ ev' = Alert(t.kind, c)
    /\ Spoil
    /\ UNCHANGED <<walletConnected, joinedWhitelist, loading,
                   numberOfWhitelisted, web3ModalRef, effectPending,
                   callsStarted, rendered, returned, newest>>

----------------------------------------------------------------------------
\* connectWallet

\* connectWallet that sets walletConnected but starts no read.
ConnectWalletOk_noReads(t, c) ==
    /\ t.kind = "connectWallet"
    /\ t.pc = "getNetwork"
    /\ c = RequiredChainId
    /\ walletConnected' = TRUE
    /\ effectPending' = (effectPending \/ ~walletConnected)
    /\ Finish(t)
    /\ ev' = NetworkOk(c)
    /\ UNCHANGED <<joinedWhitelist, loading, numberOfWhitelisted,
                   web3ModalRef, callsStarted, returned, newest, joinRun>>
    /\ Render

\* getNetwork() answers chain id c = 4 in connectWallet:
\* setWalletConnected(true), then checkIfAddressInWhitelist() and
\* getNumberOfWhitelisted() are called without await; connectWallet returns.
ConnectWalletOk(t, c) ==
    /\ t.kind = "connectWallet"
    /\ t.pc = "getNetwork"
    /\ c = RequiredChainId
    /\ walletConnected' = TRUE
    /\ effectPending' = (effectPending \/ ~walletConnected)
    /\ Issue(t, Reads, "connectWallet")
    /\ Issued(Reads)
    /\ callsStarted' = callsStarted + 2
    /\ ev' = NetworkOk(c)
    /\ UNCHANGED <<joinedWhitelist, loading, numberOfWhitelisted,
                   web3ModalRef, returned, joinRun>>
    /\ Render

----------------------------------------------------------------------------
\* getNumberOfWhitelisted

\* getNumberOfWhitelisted without the chain test of getProviderOrSigner.
GetNumberNetworkOk_anyChain(t, c) ==
    /\ t.kind = "getNumberOfWhitelisted"
    /\ t.pc = "getNetwork"
    /\ Move(t, "numAddressesWhitelisted")
    /\ ev' = NetworkOk(c)
    /\ UNCHANGED <<walletConnected, joinedWhitelist, loading,
                   numberOfWhitelisted, web3ModalRef, effectPending,
                   callsStarted, rendered, returned, newest, joinRun>>

\* getNetwork() answers chain id c = 4: numAddressesWhitelisted() is called.
GetNumberNetworkOk(t, c) ==
    /\ t.kind = "getNumberOfWhitelisted"
    /\ t.pc = "getNetwork"
    /\ c = RequiredChainId
    /\ Move(t, "numAddressesWhitelisted")
    /\ ev' = NetworkOk(c)
    /\ UNCHANGED <<walletConnected, joinedWhitelist, loading,
                   numberOfWhitelisted, web3ModalRef, effectPending,
                   callsStarted, rendered, returned, newest, joinRun>>

\* numAddressesWhitelisted() answers n: setNumberOfWhitelisted(n).
GetNumberOk(t, n) ==
    /\ t.kind = "getNumberOfWhitelisted"
    /\ t.pc = "numAddressesWhitelisted"
    /\ numberOfWhitelisted' = n
    /\ returned' = [returned EXCEPT !.count = n]
    /\ newest' = IF t.latest THEN [newest EXCEPT !.count = n] ELSE newest
    /\ Finish(t)
    /\ ev' = Ok
    /\ UNCHANGED <<walletConnected, joinedWhitelist, loading, web3ModalRef,
                   effectPending, callsStarted, rendered, joinRun>>

----------------------------------------------------------------------------
\* checkIfAddressInWhitelist

\* getNetwork() answers chain id c = 4: signer.getAddress() is called.
CheckNetworkOk(t, c) ==
    /\ t.kind = "checkIfAddressInWhitelist"
    /\ t.pc = "getNetwork"
    /\ c = RequiredChainId
    /\ Move(t, "getAddress")
    /\ ev' = NetworkOk(c)
    /\ UNCHANGED <<walletConnected, joinedWhitelist, loading,
                   numberOfWhitelisted, web3ModalRef, effectPending,
                   callsStarted, rendered, returned, newest, joinRun>>

\* getAddress() resolves: whitelistedAddress(address) is called.
CheckAddressOk(t) ==
    /\ t.kind = "checkIfAddressInWhitelist"
    /\ t.pc = "getAddress"
    /\ Move(t, "whitelistedAddress")
    /\ ev' = Ok
    /\ UNCHANGED <<walletConnected, joinedWhitelist, loading,
                   numberOfWhitelisted, web3ModalRef, effectPending,
                   callsStarted, rendered, returned, newest, joinRun>>

\* whitelistedAddress(address) answers b: setJoinedWhitelist(b).
CheckOk(t, b) ==
    /\ t.kind = "checkIfAddressInWhitelist"
    /\ t.pc = "whitelistedAddress"
    /\ joinedWhitelist' = b
    /\ returned' = [returned EXCEPT !.member = IF b THEN 1 ELSE 0]
    /\ newest' = IF t.latest
                 THEN [newest EXCEPT !.member = IF b THEN 1 ELSE 0]
                 ELSE newest
    /\ Finish(t)
    /\ joinRun' = IF joinRun = "confirmed" /\ ~b THEN "spoiled" ELSE joinRun
    /\ ev' = Ok
    /\ UNCHANGED <<walletConnected, loading, numberOfWhitelisted,
                   web3ModalRef, effectPending, callsStarted>>
    /\ Render

----------------------------------------------------------------------------
\* addAddressToWhitelist

\* addAddressToWhitelist with setLoading(true) before the contract call.
JoinNetworkOk_loadingEarly(t, c) ==
    /\ t.kind = "addAddressToWhitelist"
    /\ t.pc = "getNetwork"
    /\ c = RequiredChainId
    /\ Move(t, "addAddressToWhitelist")
    /\ loading' = TRUE
    /\ ev' = NetworkOk(c)
    /\ UNCHANGED <<walletConnected, joinedWhitelist, numberOfWhitelisted,
                   web3ModalRef, effectPending, callsStarted, returned, newest,
                   joinRun>>
    /\ Render

\* getNetwork() answers chain id c = 4: the contract's addAddressToWhitelist()
\* is called (the wallet asks the user to sign).
JoinNetworkOk(t, c) ==
    /\ t.kind = "addAddressToWhitelist"
    /\ t.pc = "getNetwork"
    /\ c = RequiredChainId
    /\ Move(t, "addAddressToWhitelist")
    /\ ev' = NetworkOk(c)
    /\ UNCHANGED <<walletConnected, joinedWhitelist, loading,
                   numberOfWhitelisted, web3ModalRef, effectPending,
                   callsStarted, rendered, returned, newest, joinRun>>

\* addAddressToWhitelist with setLoading(true) left out.
SubmitOk_noLoading(t) ==
    /\ t.kind = "addAddressToWhitelist"
    /\ t.pc = "addAddressToWhitelist"
    /\ Move(t, "wait")
    /\ ev' = Ok
    /\ UNCHANGED <<walletConnected, joinedWhitelist, loading,
                   numberOfWhitelisted, web3ModalRef, effectPending,
                   callsStarted, rendered, returned, newest, joinRun>>

\* The contract call resolves with the submitted transaction:
\* setLoading(true), then tx.wait() is called.
SubmitOk(t) ==
    /\ t.kind = "addAddressToWhitelist"
    /\ t.pc = "addAddressToWhitelist"
    /\ loading' = TRUE
    /\ Move(t, "wait")
    /\ ev' = Ok
    /\ UNCHANGED <<walletConnected, joinedWhitelist, numberOfWhitelisted,
                   web3ModalRef, effectPending, callsStarted, returned, newest,
                   joinRun>>
    /\ Render

\* tx.wait() resolves, the transaction is mined: setLoading(false), then
\* getNumberOfWhitelisted() is called and awaited.  It never throws, and
\* nothing follows it, so the run goes on as that call.
WaitOk(t) ==
    /\ t.kind = "addAddressToWhitelist"
    /\ t.pc = "wait"
    /\ loading' = FALSE
    /\ Issue(t, {"getNumberOfWhitelisted"}, "addAddressToWhitelist")
    /\ Issued({"getNumberOfWhitelisted"})
    /\ joinRun' = IF joinRun = "none" THEN "confirmed" ELSE joinRun
    /\ ev' = Ok
    /\ UNCHANGED <<walletConnected, joinedWhitelist, numberOfWhitelisted,
                   web3ModalRef, effectPending, callsStarted, returned>>
    /\ Render

\* tx.wait() rejects: the transaction was mined and reverted, or was replaced.
\* The catch block logs the error.
WaitFailed(t) ==
    /\ t.kind = "addAddressToWhitelist"
    /\ t.pc = "wait"
    /\ Finish(t)
    /\ Spoil
    /\ ev' = WaitError(t.kind)
    /\ UNCHANGED <<walletConnected, joinedWhitelist, loading,
                   numberOfWhitelisted, web3ModalRef, effectPending,
                   callsStarted, rendered, returned, newest>>

----------------------------------------------------------------------------
Next ==
    \/ RunEffect
    \/ ClickConnect
    \/ ClickJoin
    \/ \E t \in Running : ConnectResolved(t)
    \/ \E t \in Running : Fail(t)
    \/ \E t \in Running : \E c \in ChainIds : NetworkWrong(t, c)
    \/ \E t \in Running : \E c \in ChainIds : ConnectWalletOk(t, c)
    \/ \E t \in Running : \E c \in ChainIds : GetNumberNetworkOk(t, c)
    \/ \E t \in Running : \E n \in 0..MaxCount : GetNumberOk(t, n)
    \/ \E t \in Running : \E c \in ChainIds : CheckNetworkOk(t, c)
    \/ \E t \in Running : CheckAddressOk(t)
    \/ \E t \in Running : \E b \in BOOLEAN : CheckOk(t, b)
    \/ \E t \in Running : \E c \in ChainIds : JoinNetworkOk(t, c)
    \/ \E t \in Running : SubmitOk(t)
    \/ \E t \in Running : WaitOk(t)
    \/ \E t \in Running : WaitFailed(t)

Spec == Init /\ [][Next]_vars

TypeOK ==
    /\ walletConnected \in BOOLEAN
    /\ joinedWhitelist \in BOOLEAN
    /\ loading \in BOOLEAN
    /\ numberOfWhitelisted \in 0..MaxCount
    /\ web3ModalRef \in 0..1
    /\ callsStarted \in 0..MaxTasks
    /\ IsABag(tasks)
    /\ BagCardinality(tasks) <= callsStarted
    /\ \A t \in Running : t.kind \in Kinds /\ t.pc \in PCs
    /\ \A k \in Reads :
          Cardinality({t \in Running : t.kind = k /\ t.latest}) <= 1
    /\ newest.count \in -1..MaxCount /\ newest.member \in -1..1
    /\ rendered = renderButton(walletConnected, joinedWhitelist, loading)

----------------------------------------------------------------------------
\* The tasks of bag B that are calls of the same function by the same caller
\* at the same await as t, whether the latest call of a read or not.
Copies(t, B) ==
    IF t.kind \in Reads
    THEN CopiesIn([t EXCEPT !.latest = TRUE], B)
            + CopiesIn([t EXCEPT !.latest = FALSE], B)
    ELSE CopiesIn(t, B)

\* The step of task t: every step of a task replaces or removes its record.
Stepped(t) == Copies(t, tasks) > 0 /\ Copies(t, tasks') < Copies(t, tasks)

\* The calls started in the step: every call starts at its first await, and
\* no call comes back to it.
Started ==
    {u \in BagToSet(tasks') :
        /\ u.pc = "connect"
        /\ u.kind \in Reads => u.latest
        /\ Copies(u, tasks') > Copies(u, tasks)}

Variants == {"connect", "thanks", "loading", "join"}

\* The variant the stated priority order picks.
Priority(wc, jw, ld) ==
    CASE ~wc -> "connect"
      [] wc /\ jw -> "thanks"
      [] wc /\ ~jw /\ ld -> "loading"
      [] wc /\ ~jw /\ ~ld -> "join"

----------------------------------------------------------------------------
\* C1: in every reachable state, loading is true only if some join
\* transaction submitted by addAddressToWhitelist is not yet confirmed.
C1_LoadingOnlyWhileUnconfirmed == loading => unconfirmed # {}

\* C2: for every combination of walletConnected, joinedWhitelist and loading,
\* renderButton yields exactly one of the four variants, the one the priority
\* order picks (not connected, member, pending, idle), and that is the
\* variant on the page in every reachable state.
C2_RenderPriority ==
    /\ \A wc \in BOOLEAN, jw \in BOOLEAN, ld \in BOOLEAN :
          /\ renderButton(wc, jw, ld) \in Variants
          /\ renderButton(wc, jw, ld) = Priority(wc, jw, ld)
    /\ rendered = Priority(walletConnected, joinedWhitelist, loading)

\* C2's case: a member whose join transaction is still pending sees the
\* thank-you message.
C2_Witness ==
    /\ walletConnected /\ joinedWhitelist /\ loading
    /\ rendered = "thanks"

\* C3: after a join transaction is confirmed and every later call succeeded,
\* the session ends up in Connected{Member}: when all calls have completed,
\* joinedWhitelist is true and the thank-you message is rendered.
C3_JoinReachesMember ==
    (joinRun = "confirmed" /\ tasks = EmptyBag) =>
        (joinedWhitelist /\ rendered = "thanks")

\* C4: a getNumberOfWhitelisted run that fails at any step does not alter
\* numberOfWhitelisted, and a checkIfAddressInWhitelist run that fails at
\* any step does not alter joinedWhitelist: neither the failing step nor any
\* earlier step of the run writes the cell (a run writes only in the step
\* that completes it without an error).
C4_FailedReadKeepsValue ==
    [][\A t \in Running : Stepped(t) =>
          /\ (t.kind = "getNumberOfWhitelisted"
                /\ (ev'[2] # "ok" \/ t.pc # "numAddressesWhitelisted"))
             => numberOfWhitelisted' = numberOfWhitelisted
          /\ (t.kind = "checkIfAddressInWhitelist"
                /\ (ev'[2] # "ok" \/ t.pc # "whitelistedAddress"))
             => joinedWhitelist' = joinedWhitelist]_vars

\* C4's case: a count read has just failed while the count on the page is
\* the one an earlier read set.
C4_Witness ==
    /\ ev[1] = "getNumberOfWhitelisted" /\ ev[2] \in {"error", "alert"}
    /\ numberOfWhitelisted > 0

\* C5: when getNetwork() answers connectWallet a chain id other than 4, the
\* alert is shown, connectWallet ends with the error, the four state cells
\* are unchanged (walletConnected stays false), and no read is started.
C5_WrongNetworkConnect ==
    [][\A t \in Running :
          (Stepped(t) /\ t.kind = "connectWallet" /\ t.pc = "getNetwork"
             /\ ev'[3] \notin {0, RequiredChainId})
          => /\ ev' = Alert("connectWallet", ev'[3])
             /\ UIState' = UIState
             /\ (~walletConnected => ~walletConnected')
             /\ tasks' = tasks (-) SetToBag({t})
             /\ Started = {}]_vars

\* C5's case: the connectWallet of the page load, the only call so far, has
\* ended with the alert.
C5_Witness ==
    /\ ev = Alert("connectWallet", OtherChainId)
    /\ tasks = EmptyBag /\ callsStarted = 1
    /\ ~walletConnected

\* C6: an addAddressToWhitelist run that fails at or before the submission
\* (wallet connection, chain test, contract call) changes no state cell in
\* any of its steps, never sets loading, and starts no count refresh.
C6_FailedJoinChangesNothing ==
    [][\A t \in Running :
          (Stepped(t) /\ t.kind = "addAddressToWhitelist"
             /\ t.pc \in {"connect", "getNetwork", "addAddressToWhitelist"})
          => /\ (t.pc # "addAddressToWhitelist" \/ ev'[2] # "ok")
                => (UIState' = UIState /\ rendered' = rendered)
             /\ ev'[2] # "ok"
                => (tasks' = tasks (-) SetToBag({t}) /\ Started = {})]_vars

\* C6's case: a join run has just failed at or before the submission.
C6_Witness ==
    /\ ev[1] = "addAddressToWhitelist" /\ ev[2] \in {"error", "alert"}
    /\ walletConnected /\ ~loading

\* C7: in a join run whose submission succeeds, loading is set in the step
\* that receives the submitted transaction and in no other step; it is
\* cleared in the step that receives the confirmation and in no other step;
\* and the count refresh of the run is started in that step, with loading
\* already false, and in no other.
C7_JoinOrder ==
    [][/\ \A t \in Running :
            (Stepped(t) /\ t.kind = "addAddressToWhitelist") =>
               /\ (t.pc = "addAddressToWhitelist" /\ ev'[2] = "ok")
                  => (loading' /\ BagIn([t EXCEPT !.pc = "wait"], tasks'))
               /\ (t.pc = "wait" /\ ev'[2] = "ok")
                  => /\ ~loading'
                     /\ NewTask("getNumberOfWhitelisted",
                                "addAddressToWhitelist") \in Started
       /\ (~loading /\ loading')
            => \E t \in Running : /\ Stepped(t)
                                /\ t.pc = "addAddressToWhitelist"
                                /\ ev'[2] = "ok"
       /\ (loading /\ ~loading')
            => \E t \in Running : Stepped(t) /\ t.pc = "wait" /\ ev'[2] = "ok"
       /\ \A u \in Started :
            u.caller = "addAddressToWhitelist"
            => /\ ~loading'
               /\ \E t \in Running : /\ Stepped(t)
                                     /\ t.pc = "wait" /\ ev'[2] = "ok"]_vars

\* C7's case: a join run has gone through submission and confirmation and
\* its count refresh is in flight.
C7_Witness ==
    /\ \E t \in Running : t.caller = "addAddressToWhitelist"
    /\ ~loading
    /\ joinRun = "confirmed"

\* A step in which a membership read completes with the answer false.
MembershipAnsweredFalse ==
    \E t \in Running : /\ Stepped(t)
                     /\ t.kind = "checkIfAddressInWhitelist"
                     /\ t.pc = "whitelistedAddress"
                     /\ ev' = Ok
                     /\ returned'.member = 0

\* No connectWallet or addAddressToWhitelist run is started in the step.
NoRunStarted == \A u \in Started : u.caller # "top"

C9_NoReconnect ==
    [][walletConnected
          => /\ rendered # "connect"
             /\ \A u \in Started : u.kind # "connectWallet"
             /\ web3ModalRef' = web3ModalRef]_vars

\* C9's case: the effect has run again after walletConnected became true.
C9_Witness ==
    /\ walletConnected
    /\ ~effectPending
    /\ web3ModalRef = 1

\* C10: on a page load without clicks (the effect's connectWallet and its
\* two reads are the only calls), when connectWallet has passed the chain
\* test walletConnected is true and both reads have been started; and when
\* both have completed, the count read with n and the membership read with
\* false, the page shows n and the join button, with joinedWhitelist and
\* loading false.
C10_FreshLoad ==
    (walletConnected /\ callsStarted <= 3) =>
       /\ callsStarted = 3
       /\ joinRun = "none" =>
             /\ returned.member >= 0
                  \/ \E t \in Running : t.kind = "checkIfAddressInWhitelist"
             /\ returned.count >= 0
                  \/ \E t \in Running : t.kind = "getNumberOfWhitelisted"
       /\ (tasks = EmptyBag /\ returned.count >= 0 /\ returned.member = 0) =>
             /\ numberOfWhitelisted = returned.count
             /\ ~joinedWhitelist
             /\ ~loading
             /\ rendered = "join"

\* C10's case: the page load is over, the count read answered MaxCount and
\* the membership read answered false.
C10_Witness ==
    /\ walletConnected /\ callsStarted = 3 /\ tasks = EmptyBag
    /\ returned = [count |-> MaxCount, member |-> 0]
    /\ numberOfWhitelisted = MaxCount
    /\ rendered = "join"

----------------------------------------------------------------------------
\* C11: in every reachable state where loading is true, the rendered variant
\* is not the join button (it is the loading button or the thank-you
\* message, neither of which has an onClick), so a click cannot start
\* addAddressToWhitelist.
C11_NoJoinWhilePending ==
    loading => /\ rendered \in {"loading", "thanks"}
               /\ ~ENABLED ClickJoin

\* C11's case: a join transaction is unconfirmed, the address is not a
\* member, and the page shows the loading button.
C11_Witness ==
    /\ loading /\ walletConnected /\ ~joinedWhitelist
    /\ unconfirmed # {}
    /\ rendered = "loading"

\* C12: a call of any of the four functions that ends with an error, at
\* whichever await, leaves the four state cells as they were before the call
\* was started.  No step before the failing one may have written a cell
\* without the failing step undoing it: a join run was started with loading
\* false (C11), so when its tx.wait() rejects loading is false again, unless
\* another join transaction is still unconfirmed.
C12_FailedOperationIsNoOp ==
    [][\A t \in Running :
          (Stepped(t) /\ ev'[2] # "ok")
          => /\ walletConnected' = walletConnected
             /\ joinedWhitelist' = joinedWhitelist
             /\ numberOfWhitelisted' = numberOfWhitelisted
             /\ IF t.pc = "wait"
                THEN ~loading' \/ unconfirmed' # {}
                ELSE loading' = loading]_vars

\* C13: no two sequences are in flight at the same time: the effect or a
\* click starts a sequence (a connectWallet or an addAddressToWhitelist run
\* with the reads it calls) only when no call of an earlier sequence is
\* still in flight.
C13_OneSequenceAtATime ==
    [][(\E u \in Started : u.caller = "top") => tasks = EmptyBag]_vars

\* C14: whenever no count read is in flight, numberOfWhitelisted is the
\* value returned to the count read that was started last, and whenever no
\* membership read is in flight, joinedWhitelist is the value returned to
\* the membership read that was started last (where that read returned a
\* value): an answer to an earlier read does not replace it.
C14_LatestReadWins ==
    /\ (InFlight("getNumberOfWhitelisted") = 0 /\ newest.count >= 0)
          => numberOfWhitelisted = newest.count
    /\ (InFlight("checkIfAddressInWhitelist") = 0 /\ newest.member >= 0)
          => joinedWhitelist = (newest.member = 1)

\* A task like u that tasks did not hold is in tasks'.
Gained(u) == Copies(u, tasks') > Copies(u, tasks)

\* C15: a call reaches a contract call (numAddressesWhitelisted,
\* addAddressToWhitelist, or getAddress followed by whitelistedAddress) only
\* in the step in which getNetwork() answered that same call with chain id 4;
\* and when getNetwork() answers a call with another chain id, the alert is
\* shown, the call ends, and no call moves on to a contract call.
C15_NetworkCheckedFirst ==
    [][/\ \A u \in BagToSet(tasks') :
            /\ (Gained(u) /\ u.pc \in {"numAddressesWhitelisted", "getAddress",
                                        "addAddressToWhitelist"})
               => /\ ev' = NetworkOk(RequiredChainId)
                  /\ Stepped([u EXCEPT !.pc = "getNetwork"])
            /\ (Gained(u) /\ u.pc = "whitelistedAddress")
               => Stepped([u EXCEPT !.pc = "getAddress"])
       /\ \A t \in Running :
            (Stepped(t) /\ t.pc = "getNetwork"
               /\ ev'[3] \notin {0, RequiredChainId})
            => /\ ev' = Alert(t.kind, ev'[3])
               /\ \A u \in BagToSet(tasks') : ~Gained(u)]_vars

\* C15's case: getNetwork() has just answered a join run with chain id 4 and
\* the run has called the contract's addAddressToWhitelist().
C15_Witness ==
    /\ ev = NetworkOk(RequiredChainId)
    /\ \E t \in Running : t.pc = "addAddressToWhitelist"

\* C16: a Web3Modal is created exactly once in a page session: none is
\* created after the first, one exists whenever a call has been started
\* (every call asks it for the wallet), the step that creates it is the
\* effect running with walletConnected false, and walletConnected never
\* goes from true back to false.
C16_OneWeb3Modal ==
    /\ [](/\ web3ModalRef <= 1
          /\ (callsStarted > 0 \/ tasks # EmptyBag) => web3ModalRef = 1)
    /\ [][/\ web3ModalRef' # web3ModalRef
              => /\ web3ModalRef = 0 /\ web3ModalRef' = 1
                 /\ effectPending /\ ~effectPending'
                 /\ ~walletConnected
          /\ walletConnected => walletConnected']_vars

\* C16's case: the effect has run a second time, after walletConnected
\* became true, and a join run has been started since.
C16_Witness ==
    /\ web3ModalRef = 1
    /\ walletConnected /\ ~effectPending
    /\ InFlight("addAddressToWhitelist") > 0

\* The join runs in flight whose await is one of ps.
JoinsAt(ps) ==
    BagCardinality([t \in {u \in Running : /\ u.kind = "addAddressToWhitelist"
                                            /\ u.pc \in ps} |-> tasks[t]])

\* The join runs in flight, those at their count refresh included.
JoinRuns ==
    BagCardinality([t \in {u \in Running :
                              \/ u.kind = "addAddressToWhitelist"
                              \/ u.caller = "addAddressToWhitelist"}
                      |-> tasks[t]])

\* C17: at most one join transaction is unconfirmed at any time, and the
\* contract's addAddressToWhitelist() is not called while another join run
\* is still in flight, its count refresh included.
C17_OneUnconfirmedJoin ==
    /\ JoinsAt({"wait"}) <= 1
    /\ JoinsAt({"addAddressToWhitelist", "wait"}) > 0
          => JoinRuns <= 1
====
